---- MODULE Spec2Model ----
(***************************************************************************)
(* Model of the IMGENIE web server (src/imgenie/imgenie_server.py) and of  *)
(* the two model classes it drives (image_generator.py, image_describer.py)*)
(*                                                                         *)
(* The Flask app is started with threaded=True (imgenie_server.py:702), so *)
(* every HTTP request runs its handler on a thread of its own and the      *)
(* handlers share the module-level `server` object without any lock.  A    *)
(* handler is modelled as one atomic step up to each long-running backend   *)
(* call (from_pretrained, load_lora_weights, LlavaForConditionalGeneration *)
(* .generate); the call is then "in flight" until a second step completes  *)
(* it.  Other requests run while a call is in flight.                      *)
(*                                                                         *)
(* Spec is that server with concurrent requests, SeqSpec the same server   *)
(* with one request at a time.  ServerPySpec is the older server of the    *)
(* repository (src/imgenie/server.py), RefSpec the reference-image resize  *)
(* of the command-line generator (image_generator.py), ProgressSpec the    *)
(* progress callback of a generate request and OutputSpec the naming of    *)
(* the image files the generator saves.                                    *)
(***************************************************************************)
EXTENDS Integers, Sequences, FiniteSets, TLC

\* ---------------------------------------------------------------- bounds
NThreads == 2          \* request threads that may be in a handler at once
MaxOrphans == 1        \* unreferenced handle-holding objects counted per slot

Threads == 1..NThreads
NoInst == 0            \* Python None as an object reference

\* ------------------------------------------------------- configuration
Slots == {"t2i", "i2t"}
\* a live object is referenced by a slot or by a thread inside its method
InstIds == 1..(Cardinality(Slots) + NThreads)
Tasks == {"text-to-image", "image-to-text", "other"}

\* keys of server.t2i_cfg / server.i2t_cfg (config 'txt2img' / 'img2txt')
t2i_cfg == {"A", "B"}
i2t_cfg == {"J"}
cfg(s) == IF s = "t2i" THEN t2i_cfg ELSE i2t_cfg

\* model_id values a load request may carry: configured ids, an id that is
\* in no config ("X") and a missing id ("")
RequestIds == t2i_cfg \cup i2t_cfg \cup {"X", ""}

\* LoRA files present under character_lora_path / concept_lora_path
LoraFiles == {"c1", "k1"}
\* an entry of a request's 'loras' list; weight <<>>: the entry has no
\* 'weight' key, <<w>>: it has weight w.  Weights are counted in hundredths
\* (100 is 1.0).
Lora(n, w) == [name |-> n, weight |-> w]
\* the 'loras' lists a generate request may carry ("zz" names no file)
LoraRequests ==
    {<<>>,
     <<Lora("c1", <<>>)>>,
     <<Lora("c1", <<>>), Lora("k1", <<>>)>>,
     <<Lora("zz", <<>>), Lora("c1", <<50>>)>>}
\* the 'steps' values a generate request may carry
StepsSet == {2}

\* ------------------------------------------------------------- objects
\* pipeline: "None" (attribute is None), "Unset" (attribute does not exist:
\* any read raises AttributeError) or the id of the model whose weights the
\* backend handle holds.  active: self._active_loras; resident: the adapters
\* loaded in the pipeline (adapter_0, adapter_1, ... in this order);
\* weights: their weights in the pipeline, in hundredths.
FreeInst ==
    [kind |-> "free", pipeline |-> "Unset", active |-> <<>>, resident |-> <<>>,
     weights |-> <<>>]

\* a new object that finds the class attribute _active_loras filled by an
\* earlier object
ImageGenerator_init_SharedAdapters ==
    [kind |-> "t2i", pipeline |-> "None", active |-> <<"c1">>, resident |-> <<>>,
     weights |-> <<>>]

\* ImageGenerator.__init__: self.pipeline = None; _active_loras is the
\* class attribute [] until an instance assigns its own.
ImageGenerator_init ==
    [kind |-> "t2i", pipeline |-> "None", active |-> <<>>, resident |-> <<>>,
     weights |-> <<>>]

\* ImageDescriber.__init__ sets no i2t_model / i2t_processor attribute.
ImageDescriber_init ==
    [kind |-> "i2t", pipeline |-> "Unset", active |-> <<>>, resident |-> <<>>,
     weights |-> <<>>]

NewInstance(s) == IF s = "t2i" THEN ImageGenerator_init ELSE ImageDescriber_init

HasHandle(o) == o.kind # "free" /\ o.pipeline \notin {"None", "Unset"}

VARIABLES
    inst,                \* heap: InstIds -> model object
    model,               \* model["t2i"] = server.t2i_model, model["i2t"] = server.i2t_model
    current_id,          \* current_id["t2i"] = server.current_t2i_id, ...
    generation_progress, \* the module-level progress dict
    orphans,             \* per slot: handle-holding objects nothing refers to
    pc,                  \* where each request thread is
    req,                 \* the request a thread is handling
    self,                \* the object whose method a thread is inside
    resp,                \* the response a thread has produced
    ops,                 \* backend operations the thread's request has invoked
    runs,                \* how often the thread's request has run the backend
    img,                 \* the reference image of the command-line generator
    output_dir           \* the image files of the command-line generator

vars == <<inst, model, current_id, generation_progress, orphans,
          pc, req, self, resp, ops, runs, img, output_dir>>

\* loras: the request's 'loras' list; lora_paths / lora_weights: the lists
\* generate passes to load_loras
NoReq ==
    [op |-> "none", slot |-> "t2i", id |-> "", loras |-> <<>>,
     lora_paths |-> <<>>, lora_weights |-> <<>>]

\* the progress dict before the first generate request
IdleProgress ==
    [status |-> "idle", progress |-> 0, step |-> 0, total_steps |-> 0, message |-> ""]

\* body: the progress dict a GET /api/progress response carries
NoResp == [code |-> 0, msg |-> "", body |-> IdleProgress]
Response(c, m) == [code |-> c, msg |-> m, body |-> IdleProgress]

SlotOf(task) == IF task = "text-to-image" THEN "t2i" ELSE "i2t"

\* ---------------------------------------------------------------- heap
Reachable(n, mdl, slf) ==
    (\E s \in Slots : mdl[s] = n) \/ (\E t \in Threads : slf[t] = n)

\* the references of the program, in a fixed order
Refs(mdl, slf) == <<mdl["t2i"], mdl["i2t"]>> \o [t \in Threads |-> slf[t]]

\* Heap addresses carry no meaning: objects are renumbered in the order in
\* which Refs first mentions them.
Rank(n, mdl, slf) ==
    LET refs == Refs(mdl, slf)
        first == CHOOSE i \in DOMAIN refs :
                     refs[i] = n /\ \A j \in DOMAIN refs : j < i => refs[j] # n
    IN Cardinality({refs[j] : j \in 1..first} \ {NoInst})

Renamed(n, mdl, slf) == IF n = NoInst THEN NoInst ELSE Rank(n, mdl, slf)

\* objects of slot s that hold a handle and that nothing refers to any more
Dropped(h, mdl, slf, s) ==
    {n \in InstIds : h[n].kind = s /\ HasHandle(h[n]) /\ ~Reachable(n, mdl, slf)}

Min(a, b) == IF a < b THEN a ELSE b

\* The heap h, slot references mdl and thread references slf a step leaves
\* behind.  An object nothing refers to is reclaimed; if it still held a
\* backend handle, when the interpreter finalises it (and frees the handle)
\* is not under the program's control: it is counted in orphans until
\* GarbageCollect.
Store(h, mdl, slf) ==
    /\ model' = [s \in Slots |-> Renamed(mdl[s], mdl, slf)]
    /\ self' = [t \in Threads |-> Renamed(slf[t], mdl, slf)]
    /\ inst' = [k \in InstIds |->
                  IF \E n \in InstIds : Reachable(n, mdl, slf) /\ Rank(n, mdl, slf) = k
                  THEN h[CHOOSE n \in InstIds :
                             Reachable(n, mdl, slf) /\ Rank(n, mdl, slf) = k]
                  ELSE FreeInst]
    /\ orphans' = [s \in Slots |->
                     Min(MaxOrphans, orphans[s] + Cardinality(Dropped(h, mdl, slf, s)))]

NewId(h) == CHOOSE n \in InstIds : h[n].kind = "free"

\* ------------------------------------------------------ model classes
\* ImageGenerator.unload_model; releaseRaises: torch.cuda.empty_cache() raises
ImageGenerator_unload_model(o, releaseRaises) ==
    IF o.pipeline = "Unset"
    THEN [obj |-> o, raised |-> TRUE, ops |-> {}]
    ELSE IF o.pipeline = "None"
    THEN [obj |-> o, raised |-> FALSE, ops |-> {}]
    ELSE IF releaseRaises
    THEN [obj |-> [o EXCEPT !.pipeline = "Unset", !.resident = <<>>, !.weights = <<>>],
          raised |-> TRUE, ops |-> {"release"}]
    ELSE [obj |-> [o EXCEPT !.pipeline = "None", !.resident = <<>>, !.weights = <<>>],
          raised |-> FALSE, ops |-> {"release"}]

\* ImageDescriber.unload_model: no reset of the attribute after `del`
ImageDescriber_unload_model(o, releaseRaises) ==
    IF o.pipeline = "Unset"
    THEN [obj |-> o, raised |-> TRUE, ops |-> {}]
    ELSE IF o.pipeline = "None"
    THEN [obj |-> o, raised |-> FALSE, ops |-> {}]
    ELSE [obj |-> [o EXCEPT !.pipeline = "Unset"],
          raised |-> releaseRaises, ops |-> {"release"}]

unload_model(o, releaseRaises) ==
    IF o.kind = "t2i"
    THEN ImageGenerator_unload_model(o, releaseRaises)
    ELSE ImageDescriber_unload_model(o, releaseRaises)

\* ImageGenerator.load_model / ImageDescriber.load_model: every exception is
\* caught and turned into False; the attribute is assigned only on success.
load_model(o, id, ok) ==
    IF ok
    THEN [obj |-> [o EXCEPT !.pipeline = id, !.resident = <<>>, !.weights = <<>>],
          result |-> TRUE]
    ELSE [obj |-> o, result |-> FALSE]

\* no reference image is open in the server process
NoImage == [state |-> "none", src |-> <<0, 0>>, size |-> <<0, 0>>]

\* the output directory before any image is saved.  files: the paths that
\* exist; saved: how many images have been saved; now: the clock, in
\* seconds; prompt, images, i: the prompt and the number of images of the
\* generate call in progress and the index of the image it saves next.
NoOutput ==
    [files |-> {}, saved |-> 0, now |-> 0, prompt |-> <<>>, images |-> 0, i |-> 0]

\* ------------------------------------------------------------- initial
\* the server after ImgenieServer.__init__, before the first request
ServerInit ==
    /\ inst = [n \in InstIds |-> FreeInst]
    /\ model = [s \in Slots |-> NoInst]
    /\ current_id = [s \in Slots |-> "None"]
    /\ generation_progress = IdleProgress
    /\ orphans = [s \in Slots |-> 0]
    /\ pc = [t \in Threads |-> "idle"]
    /\ req = [t \in Threads |-> NoReq]
    /\ self = [t \in Threads |-> NoInst]
    /\ resp = [t \in Threads |-> NoResp]
    /\ ops = [t \in Threads |-> {}]
    /\ runs = [t \in Threads |-> 0]

Init == ServerInit /\ img = NoImage /\ output_dir = NoOutput

\* a handler returns: the thread holds its response until Reply
Return(t, r, response, newops) ==
    /\ pc' = [pc EXCEPT ![t] = "done"]
    /\ req' = [req EXCEPT ![t] = [r EXCEPT !.loras = <<>>, !.lora_paths = <<>>,
                                           !.lora_weights = <<>>]]
    /\ resp' = [resp EXCEPT ![t] = response]
    /\ ops' = [ops EXCEPT ![t] = newops]

\* a handler enters a long-running call
Enter(t, r, where, newops) ==
    /\ pc' = [pc EXCEPT ![t] = where]
    /\ req' = [req EXCEPT ![t] = r]
    /\ resp' = resp
    /\ ops' = [ops EXCEPT ![t] = newops]

\* a response is on its way out: it is sent before any other handler step
\* is considered (sending commutes with every other step)
Sending == \E u \in Threads : pc[u] = "done"

Request(t, op, s) == [NoReq EXCEPT !.op = op, !.slot = s]

\* ------------------------------------------------ POST /api/model/load
\* load_model, "if server.t2i_model: try: unload_model() except: pass"
UnloadPreviousSkipped(h, s, releaseRaises) == [heap |-> h, ops |-> {}]

UnloadPrevious(h, s, releaseRaises) ==
    IF model[s] # NoInst
    THEN LET u == unload_model(h[model[s]], releaseRaises)
         IN [heap |-> [h EXCEPT ![model[s]] = u.obj], ops |-> u.ops]
    ELSE [heap |-> h, ops |-> {}]

\* load_model, "if current_loaded == model_id": nothing to do
AlreadyLoadedNever(s, id) == FALSE

AlreadyLoaded(s, id) == current_id[s] = id

\* load_model, "if model_id not in configs", looked up in both modalities'
\* configurations instead of the requested one
InConfigsOfAnyTask(s, id) == id \in t2i_cfg \cup i2t_cfg

\* load_model, "if model_id not in configs": configs is the configuration
\* of the requested task
InConfigs(s, id) == id \in cfg(s)

\* load_model, up to the call of <new object>.load_model()
LoadRequest(t) ==
    /\ pc[t] = "idle" /\ ~Sending
    /\ \E task \in Tasks, id \in RequestIds :
         LET s == SlotOf(task)
             r == [Request(t, "load", s) EXCEPT !.id = id]
         IN IF id = ""
            THEN /\ Return(t, r, Response(400, "Invalid request"), {})
                 /\ UNCHANGED <<inst, model, self, orphans, current_id>>
            ELSE IF ~InConfigs(s, id)
            THEN /\ Return(t, r, Response(400, "Model not found"), {})
                 /\ UNCHANGED <<inst, model, self, orphans, current_id>>
            ELSE IF AlreadyLoaded(s, id)
            THEN /\ Return(t, r, Response(200, "already loaded"), {})
                 /\ UNCHANGED <<inst, model, self, orphans, current_id>>
            ELSE \E releaseRaises \in BOOLEAN, ctorRaises \in BOOLEAN :
                 LET prev == UnloadPrevious(inst, s, releaseRaises)
                     n == NewId(prev.heap)
                 IN IF ctorRaises
                    THEN \* ImageGenerator(...) / ImageDescriber(...) raises
                         /\ Return(t, r, Response(500, "Failed to load model"), prev.ops)
                         /\ Store(prev.heap, model, self)
                         /\ UNCHANGED current_id
                    ELSE /\ Enter(t, r, "load_model", prev.ops)
                         /\ Store([prev.heap EXCEPT ![n] = NewInstance(s)],
                                  [model EXCEPT ![s] = n], [self EXCEPT ![t] = n])
                         /\ UNCHANGED current_id
    /\ UNCHANGED <<generation_progress, runs, img, output_dir>>

\* <new object>.load_model() returns, and load_model finishes
LoadFinish(t) ==
    /\ pc[t] = "load_model" /\ ~Sending
    /\ \E ok \in BOOLEAN :
         LET s == req[t].slot
             l == load_model(inst[self[t]], req[t].id, ok)
         IN /\ IF l.result
               THEN /\ current_id' = [current_id EXCEPT ![s] = req[t].id]
                    /\ Return(t, req[t], Response(200, "loaded"),
                              ops[t] \cup {"from_pretrained"})
               ELSE /\ current_id' = current_id
                    /\ Return(t, req[t], Response(500, "Model load returned false"),
                              ops[t] \cup {"from_pretrained"})
            /\ Store([inst EXCEPT ![self[t]] = l.obj], model, [self EXCEPT ![t] = NoInst])
    /\ UNCHANGED <<generation_progress, runs, img, output_dir>>

\* ---------------------------------------------- POST /api/model/unload
\* an unload that releases the model objects of both slots
UnloadSlotEverySlot(s, releaseRaises) ==
    LET heap == [n \in InstIds |->
                    IF \E x \in Slots : model[x] = n
                    THEN unload_model(inst[n], releaseRaises).obj
                    ELSE inst[n]]
    IN IF model[s] = NoInst
       THEN [called |-> FALSE, raised |-> FALSE, heap |-> heap, ops |-> {}]
       ELSE LET u == unload_model(inst[model[s]], releaseRaises)
            IN [called |-> TRUE, raised |-> u.raised, heap |-> heap, ops |-> u.ops]

\* unload_model, "if server.t2i_model: server.t2i_model.unload_model()":
\* called: the object's unload_model was called; raised: it raised
UnloadSlotUnguarded(s, releaseRaises) ==
    IF model[s] = NoInst
    THEN [called |-> TRUE, raised |-> TRUE, heap |-> inst, ops |-> {}]
    ELSE LET u == unload_model(inst[model[s]], releaseRaises)
         IN [called |-> TRUE, raised |-> u.raised,
             heap |-> [inst EXCEPT ![model[s]] = u.obj], ops |-> u.ops]

UnloadSlot(s, releaseRaises) ==
    IF model[s] = NoInst
    THEN [called |-> FALSE, raised |-> FALSE, heap |-> inst, ops |-> {}]
    ELSE LET u == unload_model(inst[model[s]], releaseRaises)
         IN [called |-> TRUE, raised |-> u.raised,
             heap |-> [inst EXCEPT ![model[s]] = u.obj], ops |-> u.ops]

UnloadRequest(t) ==
    /\ pc[t] = "idle" /\ ~Sending
    /\ \E task \in Tasks, releaseRaises \in BOOLEAN :
         LET s == SlotOf(task)
             r == Request(t, "unload", s)
             u == UnloadSlot(s, releaseRaises)
         IN IF u.raised
            THEN \* caught by the handler's except: 500, nothing cleared
                 /\ Return(t, r, Response(500, "unload error"), u.ops)
                 /\ Store(u.heap, model, self)
                 /\ UNCHANGED current_id
            ELSE IF u.called
            THEN /\ Return(t, r, Response(200, "Model unloaded"), u.ops)
                 /\ Store(u.heap, [model EXCEPT ![s] = NoInst], self)
                 /\ current_id' = [current_id EXCEPT ![s] = "None"]
            ELSE /\ Return(t, r, Response(200, "Model unloaded"), {})
                 /\ UNCHANGED <<inst, model, self, orphans, current_id>>
    /\ UNCHANGED <<generation_progress, runs, img, output_dir>>

\* ------------------------------------------------- POST /api/generate
DefaultWeight == 100   \* float(lora.get('weight', 1.0)), in hundredths
LoadedWeight == 100    \* the weight of an adapter that load_lora_weights loaded

\* ImageGenerator.load_loras(loras, weights); loaded: how many
\* load_lora_weights calls return before one raises (Len(loras): none
\* raises).  A pipeline refuses an adapter name that is already in use.
load_loras(o, loras, weights, loaded) ==
    IF ~HasHandle(o)
    THEN [obj |-> o, raised |-> TRUE, ops |-> {}]
    ELSE LET cleared == IF o.active # <<>>
                        THEN [o EXCEPT !.active = <<>>, !.resident = <<>>,
                                       !.weights = <<>>]
                        ELSE o
             ops1 == IF o.active # <<>> THEN {"unload_lora_weights"} ELSE {}
             k == IF cleared.resident # <<>> THEN 0 ELSE loaded
         IN IF loras = <<>>
            THEN [obj |-> cleared, raised |-> FALSE, ops |-> ops1]
            ELSE IF k < Len(loras)
            THEN [obj |-> [cleared EXCEPT
                              !.resident = cleared.resident \o SubSeq(loras, 1, k),
                              !.weights = cleared.weights \o [i \in 1..k |-> LoadedWeight]],
                  raised |-> TRUE,
                  ops |-> ops1 \cup {"load_lora_weights"}]
            ELSE [obj |-> [cleared EXCEPT !.resident = loras, !.active = loras,
                                          !.weights = weights],
                  raised |-> FALSE,
                  ops |-> ops1 \cup {"load_lora_weights", "set_adapters"}]

\* the entries of a request's 'loras' list whose file exists on disk (the
\* others are skipped)
ResolveLoras(loras) == SelectSeq(loras, LAMBDA l : l.name \in LoraFiles)

\* l_weight = float(lora.get('weight', 1.0))
l_weight(lora) == IF lora.weight = <<>> THEN DefaultWeight ELSE lora.weight[1]

\* the lists lora_paths and lora_weights that generate builds
LoraPaths(loras) ==
    [i \in 1..Len(ResolveLoras(loras)) |-> ResolveLoras(loras)[i].name]
LoraWeights(loras) ==
    [i \in 1..Len(ResolveLoras(loras)) |-> l_weight(ResolveLoras(loras)[i])]

\* the dict generate rebinds generation_progress to ('Reset progress')
StartingProgress(steps) ==
    [status |-> "starting", progress |-> 0, step |-> 0, total_steps |-> steps,
     message |-> "Starting..."]

\* generate, task text-to-image, up to the call of load_loras
GenerateImage(t) ==
    LET r == Request(t, "generate", "t2i")
    IN IF model["t2i"] = NoInst
       THEN /\ Return(t, r, Response(400, "T2I model not loaded"), {})
            /\ UNCHANGED <<generation_progress, self>>
       ELSE \E steps \in StepsSet, hasPrompt \in BOOLEAN :
              /\ generation_progress' = StartingProgress(steps)
              /\ IF ~hasPrompt
                 THEN /\ Return(t, r, Response(400, "Prompt required"), {})
                      /\ UNCHANGED self
                 ELSE \E loras \in LoraRequests :
                      /\ Enter(t, [r EXCEPT !.loras = loras,
                                            !.lora_paths = LoraPaths(loras),
                                            !.lora_weights = LoraWeights(loras)],
                               "load_loras", {})
                      /\ self' = [self EXCEPT ![t] = model["t2i"]]

\* generate, task image-to-text, behind one busy flag shared by both
\* modalities: rejected while any generation is in flight
GenerateTextExclusive(t) ==
    LET r == Request(t, "generate", "i2t")
    IN /\ UNCHANGED generation_progress
       /\ IF \E u \in Threads \ {t} : pc[u] \in {"load_loras", "gen_err", "describe"}
          THEN /\ Return(t, r, Response(503, "Busy"), {})
               /\ UNCHANGED self
          ELSE IF model["i2t"] = NoInst
          THEN /\ Return(t, r, Response(400, "I2T model not loaded"), {})
               /\ UNCHANGED self
          ELSE \E file \in {"none", "invalid", "image"} :
               IF file = "none"
               THEN /\ Return(t, r, Response(400, "No image file"), {})
                    /\ UNCHANGED self
               ELSE IF file = "invalid"
               THEN /\ Return(t, r, Response(400, "Invalid file type"), {})
                    /\ UNCHANGED self
               ELSE /\ Enter(t, r, "describe", {})
                    /\ self' = [self EXCEPT ![t] = model["i2t"]]

\* generate, task image-to-text, up to the call of describe (server.py has
\* the same branch, lines 346-366)
GenerateText(t) ==
    LET r == Request(t, "generate", "i2t")
    IN /\ UNCHANGED generation_progress
       /\ IF model["i2t"] = NoInst
          THEN /\ Return(t, r, Response(400, "I2T model not loaded"), {})
               /\ UNCHANGED self
          ELSE \E file \in {"none", "invalid", "image"} :
               IF file = "none"
               THEN /\ Return(t, r, Response(400, "No image file"), {})
                    /\ UNCHANGED self
               ELSE IF file = "invalid"
               THEN /\ Return(t, r, Response(400, "Invalid file type"), {})
                    /\ UNCHANGED self
               ELSE /\ Enter(t, r, "describe", {})
                    /\ self' = [self EXCEPT ![t] = model["i2t"]]

GenerateRequest(t) ==
    /\ pc[t] = "idle" /\ ~Sending
    /\ \E task \in Tasks :
         IF task = "text-to-image" THEN GenerateImage(t)
         ELSE IF task = "image-to-text" THEN GenerateText(t)
         ELSE /\ Return(t, Request(t, "generate", "i2t"),
                        Response(400, "Unknown task"), {})
              /\ UNCHANGED <<generation_progress, self>>
    /\ UNCHANGED <<inst, model, current_id, orphans, runs, img, output_dir>>

\* ImageGenerator.generate takes no `callback` parameter, so the call
\* generate(..., callback=update_progress, ...) raises TypeError before the
\* body runs; with server.t2i_model None it raises AttributeError.  Either
\* way the pipeline is not run.
GenerateCallRaises == TRUE

\* load_loras returns (or raises: caught and printed), then generate calls
\* server.t2i_model.generate(...); its exception is caught as gen_err and
\* the handler writes generation_progress['status'] = 'failed'
LoadLorasFinish(t) ==
    /\ pc[t] = "load_loras" /\ ~Sending
    /\ \E loaded \in 0..Len(req[t].lora_paths) :
         LET l == load_loras(inst[self[t]], req[t].lora_paths, req[t].lora_weights, loaded)
         IN /\ GenerateCallRaises
            /\ generation_progress' = [generation_progress EXCEPT !.status = "failed"]
            /\ Enter(t, req[t], "gen_err", ops[t] \cup l.ops)
            /\ Store([inst EXCEPT ![self[t]] = l.obj], model, [self EXCEPT ![t] = NoInst])
    /\ UNCHANGED <<current_id, runs, img, output_dir>>

\* the except branch goes on: generation_progress['message'] = str(gen_err),
\* and the handler returns 500
GenErrFinish(t) ==
    /\ pc[t] = "gen_err" /\ ~Sending
    /\ generation_progress' = [generation_progress EXCEPT !.message = "error"]
    /\ Return(t, req[t], Response(500, "generation error"), ops[t])
    /\ UNCHANGED <<inst, model, current_id, orphans, self, runs, img, output_dir>>

\* ImageDescriber.describe returns or raises; without a loaded model the
\* attribute read raises AttributeError and nothing is run
DescribeFinish(t) ==
    /\ pc[t] = "describe" /\ ~Sending
    /\ \E ok \in BOOLEAN :
         IF ~HasHandle(inst[self[t]])
         THEN /\ Return(t, req[t], Response(500, "generate error"), ops[t])
              /\ UNCHANGED runs
         ELSE /\ runs' = [runs EXCEPT ![t] = @ + 1]
              /\ IF ok
                 THEN Return(t, req[t], Response(200, "description"), ops[t] \cup {"run"})
                 ELSE Return(t, req[t], Response(500, "generate error"), ops[t] \cup {"run"})
    /\ Store(inst, model, [self EXCEPT ![t] = NoInst])
    /\ UNCHANGED <<current_id, generation_progress, img, output_dir>>

\* -------------------------------------------------- GET /api/progress
\* get_progress: jsonify(generation_progress)
GetProgress(t) ==
    /\ pc[t] = "idle" /\ ~Sending
    /\ Return(t, Request(t, "progress", "t2i"),
              [Response(200, "progress") EXCEPT !.body = generation_progress], {})
    /\ UNCHANGED <<inst, model, current_id, generation_progress, orphans, self,
                   runs, img, output_dir>>

\* the response is sent and the thread is free for the next request
Reply(t) ==
    /\ pc[t] = "done"
    /\ pc' = [pc EXCEPT ![t] = "idle"]
    /\ req' = [req EXCEPT ![t] = NoReq]
    /\ resp' = [resp EXCEPT ![t] = NoResp]
    /\ ops' = [ops EXCEPT ![t] = {}]
    /\ runs' = [runs EXCEPT ![t] = 0]
    /\ UNCHANGED <<inst, model, current_id, generation_progress, orphans, self, img, output_dir>>

\* the interpreter finalises the unreferenced objects of a slot, and with
\* them the backend handles they held
GarbageCollect ==
    /\ \E s \in Slots :
         /\ orphans[s] > 0
         /\ orphans' = [orphans EXCEPT ![s] = 0]
    /\ UNCHANGED <<inst, model, current_id, generation_progress, pc, req, self,
                   resp, ops, runs, img, output_dir>>

Handler(t) ==
    \/ LoadRequest(t)
    \/ LoadFinish(t)
    \/ UnloadRequest(t)
    \/ GenerateRequest(t)
    \/ LoadLorasFinish(t)
    \/ GenErrFinish(t)
    \/ DescribeFinish(t)
    \/ GetProgress(t)
    \/ Reply(t)

\* requests are served concurrently (app.run(..., threaded=True))
Next == (\E t \in Threads : Handler(t)) \/ GarbageCollect

Spec == Init /\ [][Next]_vars

\* one request at a time: a client that waits for each response before it
\* sends the next request
NoOtherRequest(t) == \A u \in Threads \ {t} : pc[u] = "idle"

SeqHandler(t) ==
    \/ NoOtherRequest(t) /\ LoadRequest(t)
    \/ NoOtherRequest(t) /\ LoadFinish(t)
    \/ NoOtherRequest(t) /\ UnloadRequest(t)
    \/ NoOtherRequest(t) /\ GenerateRequest(t)
    \/ NoOtherRequest(t) /\ LoadLorasFinish(t)
    \/ NoOtherRequest(t) /\ GenErrFinish(t)
    \/ NoOtherRequest(t) /\ DescribeFinish(t)
    \/ NoOtherRequest(t) /\ GetProgress(t)
    \/ NoOtherRequest(t) /\ Reply(t)

SeqNext == \E t \in Threads : SeqHandler(t)

SeqSpec == Init /\ [][SeqNext]_vars

\* ------------------------------------------------ src/imgenie/server.py
\* The older Flask server of the repository.  It keeps its model objects in
\* current_models (model["t2i"], model["i2t"] here), has no current ids and
\* no progress tracker, and drives the same two model classes.

\* load_model of server.py, up to the call of <new object>.load_model(); the
\* previous object of the slot is replaced without being unloaded
ServerPyLoadRequest(t) ==
    /\ pc[t] = "idle" /\ ~Sending
    /\ \E task \in Tasks, id \in RequestIds :
         LET s == SlotOf(task)
             r == [Request(t, "load", s) EXCEPT !.id = id]
         IN IF id = ""
            THEN /\ Return(t, r, Response(400, "Invalid request"), {})
                 /\ UNCHANGED <<inst, model, self, orphans>>
            ELSE IF id \notin cfg(s)
            THEN /\ Return(t, r, Response(400, "Model not found"), {})
                 /\ UNCHANGED <<inst, model, self, orphans>>
            ELSE \E ctorRaises \in BOOLEAN :
                 IF ctorRaises
                 THEN /\ Return(t, r, Response(500, "Failed to load model"), {})
                      /\ UNCHANGED <<inst, model, self, orphans>>
                 ELSE /\ Enter(t, r, "server_py_load", {})
                      /\ Store([inst EXCEPT ![NewId(inst)] = NewInstance(s)],
                               [model EXCEPT ![s] = NewId(inst)],
                               [self EXCEPT ![t] = NewId(inst)])
    /\ UNCHANGED <<current_id, generation_progress, runs, img, output_dir>>

\* <new object>.load_model() returns; its result is ignored (status = True)
ServerPyLoadFinish(t) ==
    /\ pc[t] = "server_py_load" /\ ~Sending
    /\ \E ok \in BOOLEAN :
         LET l == load_model(inst[self[t]], req[t].id, ok)
         IN /\ Return(t, req[t], Response(200, "loaded"), ops[t] \cup {"from_pretrained"})
            /\ Store([inst EXCEPT ![self[t]] = l.obj], model, [self EXCEPT ![t] = NoInst])
    /\ UNCHANGED <<current_id, generation_progress, runs, img, output_dir>>

\* unload_model of server.py: "try: unload_model() except: pass", then the
\* slot is cleared
ServerPyUnloadRequest(t) ==
    /\ pc[t] = "idle" /\ ~Sending
    /\ \E task \in Tasks, releaseRaises \in BOOLEAN :
         LET s == SlotOf(task)
             r == Request(t, "unload", s)
         IN IF model[s] # NoInst
            THEN LET u == unload_model(inst[model[s]], releaseRaises)
                 IN /\ Return(t, r, Response(200, "Model unloaded"), u.ops)
                    /\ Store([inst EXCEPT ![model[s]] = u.obj],
                             [model EXCEPT ![s] = NoInst], self)
            ELSE /\ Return(t, r, Response(200, "Model unloaded"), {})
                 /\ UNCHANGED <<inst, model, self, orphans>>
    /\ UNCHANGED <<current_id, generation_progress, runs, img, output_dir>>

\* ImageGenerator.generate(...) called with parameters it has: without a
\* pipeline it raises before anything is run; otherwise it runs the
\* pipeline once, and returns or re-raises what the pipeline raised
\* (outcome: "ok", "TypeError" or "Exception")
ImageGenerator_generate(o, outcome) ==
    IF ~HasHandle(o)
    THEN [raised |-> "Exception", runs |-> 0, ops |-> {}]
    ELSE [raised |-> outcome, runs |-> 1, ops |-> {"run"}]

\* generate of server.py, up to the call of current_models['t2i'].generate
\* or of describe (the image-to-text branch is the one of imgenie_server.py)
ServerPyGenerateRequest(t) ==
    /\ pc[t] = "idle" /\ ~Sending
    /\ \E task \in Tasks :
         IF task = "text-to-image"
         THEN /\ UNCHANGED generation_progress
              /\ IF model["t2i"] = NoInst
                 THEN /\ Return(t, Request(t, "generate", "t2i"),
                                Response(400, "T2I model not loaded"), {})
                      /\ UNCHANGED self
                 ELSE \E hasPrompt \in BOOLEAN :
                      IF ~hasPrompt
                      THEN /\ Return(t, Request(t, "generate", "t2i"),
                                     Response(400, "Prompt required"), {})
                           /\ UNCHANGED self
                      ELSE /\ Enter(t, Request(t, "generate", "t2i"),
                                    "server_py_generate", {})
                           /\ self' = [self EXCEPT ![t] = model["t2i"]]
         ELSE IF task = "image-to-text" THEN GenerateText(t)
         ELSE /\ Return(t, Request(t, "generate", "i2t"),
                        Response(400, "Unknown task"), {})
              /\ UNCHANGED <<generation_progress, self>>
    /\ UNCHANGED <<inst, model, current_id, orphans, runs, img, output_dir>>

\* the first generate call returns or raises; "except TypeError" calls
\* generate a second time, without the resolution parameters
ServerPyGenerateFinish(t) ==
    /\ pc[t] = "server_py_generate" /\ ~Sending
    /\ \E outcome \in {"ok", "TypeError", "Exception"} :
         LET g == ImageGenerator_generate(inst[self[t]], outcome)
         IN /\ runs' = [runs EXCEPT ![t] = @ + g.runs]
            /\ IF g.raised = "TypeError"
               THEN /\ Enter(t, req[t], "server_py_fallback", ops[t] \cup g.ops)
                    /\ UNCHANGED <<inst, model, self, orphans>>
               ELSE /\ IF g.raised = "ok"
                       THEN Return(t, req[t], Response(200, "image"), ops[t] \cup g.ops)
                       ELSE Return(t, req[t], Response(500, "generate error"),
                                   ops[t] \cup g.ops)
                    /\ Store(inst, model, [self EXCEPT ![t] = NoInst])
    /\ UNCHANGED <<current_id, generation_progress, img, output_dir>>

\* the second generate call returns or raises
ServerPyFallbackFinish(t) ==
    /\ pc[t] = "server_py_fallback" /\ ~Sending
    /\ \E outcome \in {"ok", "TypeError", "Exception"} :
         LET g == ImageGenerator_generate(inst[self[t]], outcome)
         IN /\ runs' = [runs EXCEPT ![t] = @ + g.runs]
            /\ IF g.raised = "ok"
               THEN Return(t, req[t], Response(200, "image"), ops[t] \cup g.ops)
               ELSE Return(t, req[t], Response(500, "generate error"), ops[t] \cup g.ops)
            /\ Store(inst, model, [self EXCEPT ![t] = NoInst])
    /\ UNCHANGED <<current_id, generation_progress, img, output_dir>>

ServerPyHandler(t) ==
    \/ NoOtherRequest(t) /\ ServerPyLoadRequest(t)
    \/ NoOtherRequest(t) /\ ServerPyLoadFinish(t)
    \/ NoOtherRequest(t) /\ ServerPyUnloadRequest(t)
    \/ NoOtherRequest(t) /\ ServerPyGenerateRequest(t)
    \/ NoOtherRequest(t) /\ ServerPyGenerateFinish(t)
    \/ NoOtherRequest(t) /\ ServerPyFallbackFinish(t)
    \/ NoOtherRequest(t) /\ DescribeFinish(t)
    \/ NoOtherRequest(t) /\ Reply(t)

\* server.py serving one request at a time
ServerPyNext == \E t \in Threads : ServerPyHandler(t)

ServerPySpec == Init /\ [][ServerPyNext]_vars

\* ------------------------------- ImageGenerator._load_reference_image
\* The server never gets as far as the reference image (its generate call
\* raises before the body runs); the command-line generator does:
\* generate_from_yaml passes ref_image_path to generate, which derives the
\* output size from the resized reference image.
CanonWidth == 720    \* img.resize((720, int(720 * height / width)))
Multiple == 16       \* width - (width % 16)

\* sizes of the reference image files
RefWidths == {15, 16, 500, 720, 1000, 1280, 1920, 4000}
RefHeights == {15, 16, 500, 720, 1000, 1280, 1920, 4000}

\* PIL Image.resize(size): ValueError unless both dimensions are positive
resize(size) == [raised |-> size[1] < 1 \/ size[2] < 1, size |-> size]

\* rounding up to the multiple of 16 instead of down
load_reference_image_RoundedUp(size) ==
    LET first == resize(<<CanonWidth, (CanonWidth * size[2]) \div size[1]>>)
        width == first.size[1]
        height == first.size[2]
        new_width == width + ((Multiple - (width % Multiple)) % Multiple)
        new_height == height + ((Multiple - (height % Multiple)) % Multiple)
    IN IF first.raised
       THEN [state |-> "failed", size |-> size, scaled |-> first.size]
       ELSE [state |-> "resized", size |-> <<new_width, new_height>>,
             scaled |-> first.size]

\* _load_reference_image for an image of the given <<width, height>>;
\* int(720 * height / width) of positive integers is the floor of the
\* quotient.  scaled: the size after the first resize.
load_reference_image(size) ==
    LET first == resize(<<CanonWidth, (CanonWidth * size[2]) \div size[1]>>)
        width == first.size[1]
        height == first.size[2]
        new_width == width - (width % Multiple)
        new_height == height - (height % Multiple)
    IN IF first.raised
       THEN [state |-> "failed", size |-> size, scaled |-> first.size]
       ELSE IF new_width # width \/ new_height # height
       THEN IF resize(<<new_width, new_height>>).raised
            THEN [state |-> "failed", size |-> first.size, scaled |-> first.size]
            ELSE [state |-> "resized", size |-> <<new_width, new_height>>,
                  scaled |-> first.size]
       ELSE [state |-> "resized", size |-> first.size, scaled |-> first.size]

\* the <<width, height>> a prompt file may carry (720 x 720 when it carries
\* none)
RefRequested == {<<720, 720>>, <<1024, 512>>}

\* the pipeline is given the requested size whatever the reference image
PipelineSizeRequested(requested, ref) == requested

\* the <<width, height>> generate passes to the pipeline: with a reference
\* image, height = reference_img.height and width = reference_img.width
PipelineSize(requested, ref) ==
    IF ref.state = "resized" THEN ref.size ELSE requested

\* generate has been called with a requested size, and either
\* Image.open(image_path) has returned an image of some size or there is no
\* reference image
RefInit ==
    /\ ServerInit
    /\ img \in {[state |-> "opened", src |-> <<w, h>>, size |-> <<w, h>>,
                 scaled |-> <<0, 0>>, requested |-> r, passed |-> <<0, 0>>] :
                   w \in RefWidths, h \in RefHeights, r \in RefRequested}
               \cup
               {[state |-> "absent", src |-> <<0, 0>>, size |-> <<0, 0>>,
                 scaled |-> <<0, 0>>, requested |-> r, passed |-> <<0, 0>>] :
                   r \in RefRequested}
    /\ output_dir = NoOutput

\* generate with a reference image: _load_reference_image, then the
\* pipeline call unless the image could not be resized
LoadReferenceImage ==
    /\ img.state = "opened"
    /\ LET ref == load_reference_image(img.size)
       IN img' = [state |-> ref.state,
                  src |-> img.src,
                  size |-> ref.size,
                  scaled |-> ref.scaled,
                  requested |-> img.requested,
                  passed |-> IF ref.state = "resized"
                             THEN PipelineSize(img.requested, ref)
                             ELSE <<0, 0>>]
    /\ UNCHANGED <<inst, model, current_id, generation_progress, orphans,
                   pc, req, self, resp, ops, runs, output_dir>>

\* generate without a reference image: the text-to-image pipeline call
GenerateWithoutReference ==
    /\ img.state = "absent"
    /\ img' = [img EXCEPT !.state = "text",
                          !.passed = PipelineSize(img.requested, img)]
    /\ UNCHANGED <<inst, model, current_id, generation_progress, orphans,
                   pc, req, self, resp, ops, runs, output_dir>>

RefNext == LoadReferenceImage \/ GenerateWithoutReference

RefSpec == RefInit /\ [][RefNext]_vars

\* --------------------------------------- generate.update_progress
\* the 'steps' values of the requests whose progress callback is followed
\* (30 when the request carries none)
ProgressSteps == {0, 1, 2, 30, 50, 100}

\* int((step / steps) * 100) is computed in binary floating point: for these
\* <<step, steps>>, and for no other with step <= steps <= 100, the product
\* falls just below the whole number 100 * step / steps and int() cuts it to
\* one less (29 / 50 * 100 is 57.99999999999999)
FloatShortfall == {<<29, 50>>, <<29, 100>>, <<57, 100>>, <<58, 100>>}

\* update_progress(pipe, step, timestep, callback_kwargs) of a request with
\* the given steps; with steps = 0 the division raises ZeroDivisionError
\* after status and step have been written
update_progress(progress, step, steps) ==
    IF steps = 0
    THEN [progress |-> [progress EXCEPT !.status = "generating", !.step = step],
          raised |-> TRUE]
    ELSE [progress |-> [progress EXCEPT !.status = "generating",
                                        !.step = step,
                                        !.progress =
                                            IF <<step, steps>> \in FloatShortfall
                                            THEN (100 * step) \div steps - 1
                                            ELSE (100 * step) \div steps,
                                        !.message = "Step"],
          raised |-> FALSE]

\* a text-to-image request with some steps value has reset the tracker and
\* its pipeline run starts
ProgressInit ==
    /\ inst = [n \in InstIds |-> FreeInst]
    /\ model = [s \in Slots |-> NoInst]
    /\ current_id = [s \in Slots |-> "None"]
    /\ orphans = [s \in Slots |-> 0]
    /\ pc = [t \in Threads |-> "idle"]
    /\ req = [t \in Threads |-> NoReq]
    /\ self = [t \in Threads |-> NoInst]
    /\ resp = [t \in Threads |-> NoResp]
    /\ ops = [t \in Threads |-> {}]
    /\ runs = [t \in Threads |-> 0]
    /\ img = NoImage /\ output_dir = NoOutput
    /\ generation_progress \in {StartingProgress(n) : n \in ProgressSteps}

\* the pipeline has finished one more denoising step and calls the callback
\* with the step's index: 0 for the first step, up to total_steps - 1
UpdateProgress ==
    /\ generation_progress.status \in {"starting", "generating"}
    /\ LET step == IF generation_progress.status = "starting"
                   THEN 0 ELSE generation_progress.step + 1
           u == update_progress(generation_progress, step,
                                generation_progress.total_steps)
       IN /\ step < generation_progress.total_steps
          /\ generation_progress' =
                 IF u.raised
                 THEN [u.progress EXCEPT !.status = "failed", !.message = "error"]
                 ELSE u.progress
    /\ UNCHANGED <<inst, model, current_id, orphans, pc, req, self, resp, ops,
                   runs, img, output_dir>>

ProgressNext == UpdateProgress

ProgressSpec == ProgressInit /\ [][ProgressNext]_vars

\* ------------------------------- ImageGenerator._get_timestamped_path
PrefixLen == 20      \* prompt[:20]
MaxImages == 2       \* images of one generate call
MaxSaved == 3        \* images saved in all
MaxNow == 1          \* seconds the clock advances

\* the characters of the prompts
AlNum == {"a", "b", "0", "1", "2", "3", "4", "5", "6", "7", "8", "9"}
\* str(i) for an index below 10
Digit(i) == <<"0", "1", "2", "3", "4", "5", "6", "7", "8", "9">>[i + 1]

\* a prompt of n letters
Letters(n) == [k \in 1..n |-> "a"]

\* the prompts of the generate calls
Prompts ==
    {<<"a">>, <<"a", " ", "b">>, <<"a", "!", "b">>, Letters(PrefixLen - 2),
     Letters(PrefixLen)}

\* "".join(c for c in prompt[:20] if c.isalnum() or c in (' ', '_'))
\*    .replace(" ", "_")
safe_prompt(prompt) ==
    LET head == SubSeq(prompt, 1, Min(PrefixLen, Len(prompt)))
        kept == SelectSeq(head, LAMBDA c : c \in AlNum \cup {" ", "_"})
    IN [k \in DOMAIN kept |-> IF kept[k] = " " THEN "_" ELSE kept[k]]

\* _get_timestamped_path(prompt) called in second `now`: the timestamp has
\* the resolution of a second
get_timestamped_path(prompt, now) == <<now, safe_prompt(prompt)>>

\* the generator process before its first generate call
OutputInit ==
    /\ ServerInit
    /\ img = NoImage
    /\ output_dir = NoOutput

\* generate: the pipeline returns result.images for a prompt
PipelineReturns ==
    /\ output_dir.i = output_dir.images
    /\ \E prompt \in Prompts, n \in 1..MaxImages :
         /\ output_dir.saved + n <= MaxSaved
         /\ output_dir' = [output_dir EXCEPT !.prompt = prompt, !.images = n, !.i = 0]
    /\ UNCHANGED <<inst, model, current_id, generation_progress, orphans,
                   pc, req, self, resp, ops, runs, img>>

\* generate: output_path = self._get_timestamped_path(f"{prompt}_{i}");
\* img.save(output_path)
SaveImage ==
    /\ output_dir.i < output_dir.images
    /\ output_dir' =
         [output_dir EXCEPT
            !.files = @ \cup {get_timestamped_path(
                                 output_dir.prompt \o <<"_", Digit(output_dir.i)>>,
                                 output_dir.now)},
            !.saved = @ + 1,
            !.i = @ + 1]
    /\ UNCHANGED <<inst, model, current_id, generation_progress, orphans,
                   pc, req, self, resp, ops, runs, img>>

\* a second passes
Tick ==
    /\ output_dir.now < MaxNow
    /\ output_dir' = [output_dir EXCEPT !.now = @ + 1]
    /\ UNCHANGED <<inst, model, current_id, generation_progress, orphans,
                   pc, req, self, resp, ops, runs, img>>

OutputNext == PipelineReturns \/ SaveImage \/ Tick

OutputSpec == OutputInit /\ [][OutputNext]_vars

\* ------------------------------------------------------------ notions
\* the object in slot s, if any
SlotObject(s) == IF model[s] = NoInst THEN FreeInst ELSE inst[model[s]]

\* the slot is Empty: no model object and no current id
Empty(s) == model[s] = NoInst /\ current_id[s] = "None"

\* backend handles of slot s that exist: held by a live object, or by an
\* object that was dropped and is not finalised yet
ResidentHandles(s) ==
    Cardinality({n \in InstIds : inst[n].kind = s /\ HasHandle(inst[n])}) + orphans[s]

Done(t, op) == pc[t] = "done" /\ req[t].op = op

\* thread t starts handling a request of kind op in this step
Starts(t, op) == pc[t] = "idle" /\ pc'[t] # "idle" /\ req'[t].op = op

AllIdle == \A t \in Threads : pc[t] = "idle"

GenerationInFlight(t) ==
    pc[t] \in {"load_loras", "describe"} /\ HasHandle(inst[self[t]])

\* what load and unload change of a slot: the model object, its handle and
\* the current id
SlotView(s) ==
    [present |-> model[s] # NoInst,
     pipeline |-> SlotObject(s).pipeline,
     id |-> current_id[s]]

\* C2: while a generate request is in flight on a slot, no step of another
\* request changes the slot's model object, handle or current id.
C2_NoSwapDuringGeneration ==
    [][\A t \in Threads :
          (GenerationInFlight(t) /\ pc'[t] = pc[t])
              => SlotView(req[t].slot)' = SlotView(req[t].slot)]_vars

\* the backend run of thread t's generate request is in flight
RunInFlight(t) == pc[t] = "describe" /\ HasHandle(inst[self[t]])

\* C3: at no time are two backend runs in flight on the same slot (of two
\* concurrent generate requests on a slot only one proceeds to the backend).
C3_OneRunPerSlot ==
    \A t, u \in Threads :
        (t # u /\ RunInFlight(t) /\ RunInFlight(u)) => req[t].slot # req[u].slot

\* C4: two load operations on one slot never overlap: while one is between
\* its first and its last state change, no other is.
C4_NoOverlappingLoads ==
    \A t, u \in Threads :
        (t # u /\ pc[t] = "load_model" /\ pc[u] = "load_model")
            => req[t].slot # req[u].slot

\* C5: between requests, a slot holds a loaded backend handle if and only
\* if its current id (what status() reports) is present.
C5_HandleIffId ==
    AllIdle => \A s \in Slots : HasHandle(SlotObject(s)) <=> current_id[s] # "None"

\* C6: a successful load(d) leaves d as the current id, and a load(d) that
\* finds d current succeeds at once, invokes no backend operation and
\* leaves the slot's object, handle, id and adapters as they were.
C6_LoadSameIdIsNoop ==
    [][\A t \in Threads :
          /\ (pc[t] = "load_model" /\ pc'[t] = "done" /\ resp'[t].code = 200)
                => /\ current_id'[req[t].slot] = req[t].id
                   /\ SlotObject(req[t].slot)'.pipeline = req[t].id
          /\ (Starts(t, "load") /\ req'[t].id = current_id[req'[t].slot])
                => /\ pc'[t] = "done"
                   /\ resp'[t] = Response(200, "already loaded")
                   /\ ops'[t] = {}
                   /\ inst' = inst /\ model' = model /\ current_id' = current_id
                   /\ orphans' = orphans]_vars

\* a load of the id that is current has returned
C6_Witness ==
    \E t \in Threads :
        /\ Done(t, "load") /\ resp[t] = Response(200, "already loaded")
        /\ current_id[req[t].slot] = req[t].id
        /\ SlotObject(req[t].slot).pipeline = req[t].id

\* C7: after a load that failed (the constructor raised, or load_model
\* returned false) the slot is Empty.
C7_FailedLoadLeavesEmpty ==
    \A t \in Threads :
        (Done(t, "load") /\ resp[t].code = 500) => Empty(req[t].slot)

\* C8: unload always returns success and leaves the slot Empty, also when
\* the release step raises.
C8_UnloadAlwaysEmpties ==
    \A t \in Threads :
        Done(t, "unload") => (resp[t].code = 200 /\ Empty(req[t].slot))

\* C9: unload on an Empty slot succeeds, calls no backend operation and
\* leaves the slot Empty, whatever requests were served before.
C9_UnloadEmptyIsNoop ==
    [][\A t \in Threads :
          (Starts(t, "unload") /\ Empty(req'[t].slot))
              => /\ pc'[t] = "done"
                 /\ resp'[t] = Response(200, "Model unloaded")
                 /\ ops'[t] = {}
                 /\ model' = model /\ current_id' = current_id
                 /\ inst' = inst /\ orphans' = orphans]_vars

\* an unload of a slot that earlier requests left Empty has returned
C9_Witness ==
    \E t \in Threads :
        /\ Done(t, "unload") /\ resp[t].code = 200 /\ ops[t] = {}
        /\ Empty(req[t].slot)
        /\ \E s \in Slots : ~Empty(s)

\* responses that reject a generate request for its own content
BadRequest == {"Unknown task", "Prompt required", "No image file", "Invalid file type"}
ModelNotLoaded == {"T2I model not loaded", "I2T model not loaded"}

\* C10: a well-formed generate request against a slot that holds no loaded
\* model is answered ModelNotLoaded and invokes no backend operation.
C10_GenerateNeedsModel ==
    \A t \in Threads :
        (/\ Done(t, "generate") /\ resp[t].msg \notin BadRequest
         /\ ~HasHandle(SlotObject(req[t].slot)))
            => (resp[t].msg \in ModelNotLoaded /\ ops[t] = {})

\* the active adapter set of a slot (an image-to-text slot has none)
ActiveAdapters(s) == SlotObject(s).active

\* thread t's generate request fails in this step: the text-to-image
\* generate call has raised, or describe has
GenerateFails(t) ==
    \/ pc[t] = "load_loras" /\ pc'[t] = "gen_err"
    \/ pc[t] = "describe" /\ pc'[t] = "done" /\ resp'[t].code = 500

\* C11: a generate request that fails leaves the slot's current id and its
\* active adapter set as they were before the request, also when the
\* request carried another adapter set than the active one.
C11_FailedGenerateKeepsSlot ==
    [][\A t \in Threads :
          GenerateFails(t)
              => /\ current_id' = current_id
                 /\ ActiveAdapters(req[t].slot)' = ActiveAdapters(req[t].slot)]_vars

\* thread t's generate request is past its checks and has not returned
GenerateRunning(t) == pc[t] \in {"load_loras", "gen_err", "describe"}

\* thread t's generate request succeeds in this step
GenerateSucceeds(t) ==
    req[t].op = "generate" /\ pc[t] # "done" /\ pc'[t] = "done" /\ resp'[t].code = 200

\* C12: while a generate request runs, the step the progress tracker shows
\* never decreases, and when the request succeeds the tracker's step equals
\* its total_steps.
C12_StepsRiseToTotal ==
    [][\A t \in Threads :
          /\ GenerateRunning(t)
                => generation_progress'.step >= generation_progress.step
          /\ GenerateSucceeds(t)
                => generation_progress'.step = generation_progress'.total_steps]_vars

\* the request's 'loras' list names adapters and gives none of them a weight
NoExplicitWeights(loras) ==
    loras # <<>> /\ \A i \in DOMAIN loras : loras[i].weight = <<>>

\* C13: when a request names N adapters without weights and they are
\* applied, each adapter's weight in the pipeline is 1/N (N times the
\* weight is 1.0, that is 100 hundredths).
C13_EvenDefaultWeights ==
    [][\A t \in Threads :
          (/\ pc[t] = "load_loras" /\ pc'[t] = "gen_err"
           /\ NoExplicitWeights(req[t].loras)
           /\ ActiveAdapters("t2i")' = LoraPaths(req[t].loras))
              => \A i \in DOMAIN SlotObject("t2i")'.weights :
                    SlotObject("t2i")'.weights[i] * Len(req[t].loras) = 100]_vars

\* C14 as stated: a 1000x500 reference image comes out 720 wide and 336
\* high.
C14_Resized1000x500Is720x336 ==
    (img.state = "resized" /\ img.src = <<1000, 500>>) => img.size = <<720, 336>>

\* C14, amended: a 1000x500 reference image resized to the 720-wide canon
\* and rounded down to multiples of 16 comes out 720 wide and 352 high
\* (500 * 720 / 1000 = 360, and 352 is the largest multiple of 16 below it).
C14_Resized1000x500Is720x352 ==
    (img.state = "resized" /\ img.src = <<1000, 500>>) => img.size = <<720, 352>>

\* the 1000x500 reference image has been resized
C14_Witness == img.state = "resized" /\ img.src = <<1000, 500>>

\* the request's 'loras' list names an adapter whose file does not exist
NamesMissingAdapter(loras) == \E i \in DOMAIN loras : loras[i].name \notin LoraFiles

\* C15: a generate request that names an adapter whose file does not exist
\* is rejected with AdapterNotFound: none of its adapters is loaded, the
\* backend is not run and the active adapter set stays as it was.
C15_MissingAdapterRejects ==
    [][\A t \in Threads :
          (/\ pc[t] \in {"load_loras", "gen_err"} /\ pc'[t] # pc[t]
           /\ NamesMissingAdapter(req[t].loras))
              => /\ ops'[t] \cap {"load_lora_weights", "set_adapters", "run"} = {}
                 /\ ActiveAdapters("t2i")' = ActiveAdapters("t2i")
                 /\ pc'[t] = "done" => resp'[t].msg = "Adapter not found"]_vars

\* the tracker after the failure of a request of the given steps has been
\* recorded in full (status and message)
FailedProgress(steps) ==
    [StartingProgress(steps) EXCEPT !.status = "failed", !.message = "error"]

\* the values the tracker has between two whole updates
WholeUpdates ==
    {IdleProgress} \cup {StartingProgress(n) : n \in StepsSet}
                   \cup {FailedProgress(n) : n \in StepsSet}

\* C16: the snapshot a progress read returns is the tracker's value before
\* or after a whole update, never a mix of the fields of two updates.
C16_SnapshotIsWholeUpdate ==
    \A t \in Threads : Done(t, "progress") => resp[t].body \in WholeUpdates

\* C17: a load request whose model id is not in the configuration of the
\* requested modality is answered with a not-found error, calls neither the
\* backend load nor unload, and leaves every slot's model object, current
\* id and adapters as they were.
C17_UnknownIdLoadIsRejected ==
    [][\A t \in Threads :
          (/\ Starts(t, "load") /\ req'[t].id # ""
           /\ req'[t].id \notin cfg(req'[t].slot))
              => /\ pc'[t] = "done"
                 /\ resp'[t] = Response(400, "Model not found")
                 /\ ops'[t] = {}
                 /\ inst' = inst /\ model' = model /\ current_id' = current_id
                 /\ orphans' = orphans]_vars

\* a load of an id that is not configured for its modality has been
\* rejected while the slot held a loaded model
C17_Witness ==
    \E t \in Threads :
        /\ Done(t, "load") /\ resp[t] = Response(400, "Model not found")
        /\ req[t].id \notin cfg(req[t].slot)
        /\ HasHandle(SlotObject(req[t].slot))

\* C18: no automatic retries: a generate request runs the backend at most
\* once, also when the first run raises.
C18_RunsAtMostOnce == \A t \in Threads : runs[t] <= 1

\* C19: a generation in flight on one modality's slot neither blocks nor
\* rejects a generate request on the other modality's slot: the request can
\* start, and if the slot holds a model object it goes on to its backend
\* call unless its own content is rejected.
C19_OtherModalityProceeds ==
    /\ [](\A t, u \in Threads :
             (t # u /\ GenerationInFlight(u) /\ pc[t] = "idle" /\ ~Sending)
                 => ENABLED GenerateRequest(t))
    /\ [][\A t, u \in Threads :
             (/\ t # u /\ GenerationInFlight(u)
              /\ Starts(t, "generate") /\ req'[t].slot # req[u].slot
              /\ model[req'[t].slot] # NoInst)
                 => \/ pc'[t] \in {"load_loras", "describe"}
                    \/ resp'[t].msg \in BadRequest]_vars

\* generations are in flight on both slots at once, each on a loaded model
C19_Witness ==
    \E t, u \in Threads :
        /\ pc[t] = "load_loras" /\ HasHandle(inst[self[t]])
        /\ pc[u] = "describe" /\ HasHandle(inst[self[u]])

\* C20: after every adapter apply call, also one that failed partway, the
\* adapters resident in a pipeline are exactly the active adapter set its
\* object records.
C20_ResidentIsActive ==
    \A n \in InstIds :
        (inst[n].kind = "t2i" /\ HasHandle(inst[n]))
            => inst[n].resident = inst[n].active

\* the adapter names a pipeline has in use: load_loras loads its i-th
\* adapter (counting from 0) as adapter_i, and `resident` lists the loaded
\* adapters in the order of their names
adapter_name(i) == i - 1
AdapterNames(o) == {adapter_name(i) : i \in DOMAIN o.resident}

\* what the load_loras call thread t is about to make does when none of
\* its load_lora_weights calls fails of its own
Applied(t) ==
    load_loras(inst[self[t]], req[t].lora_paths, req[t].lora_weights,
               Len(req[t].lora_paths))

\* thread t is about to apply its request's adapters to a loaded pipeline
Applying(t) == pc[t] = "load_loras" /\ HasHandle(inst[self[t]])

\* the adapters or the weights thread t requests differ from those the
\* object records as active
DiffersFromActive(t) ==
    \/ req[t].lora_paths # inst[self[t]].active
    \/ req[t].lora_weights # inst[self[t]].weights

\* C21: whenever the requested adapters or weights differ from the active
\* ones (also when only the weights differ), apply unloads the active
\* adapters and loads the requested ones, and the weights in the pipeline
\* for the next run are the requested weights.
C21_DifferenceIsReapplied ==
    \A t \in Threads :
        (Applying(t) /\ DiffersFromActive(t))
            => /\ ~Applied(t).raised
               /\ inst[self[t]].active # <<>>
                     => "unload_lora_weights" \in Applied(t).ops
               /\ req[t].lora_paths # <<>>
                     => "load_lora_weights" \in Applied(t).ops
               /\ Applied(t).obj.resident = req[t].lora_paths
               /\ Applied(t).obj.weights = req[t].lora_weights

\* C22: on apply, the i-th adapter of the request's list (counting from 0)
\* is loaded under the name adapter_i with the i-th requested weight, and
\* the names in use are exactly adapter_0 .. adapter_{N-1}.
C22_IthAdapterIsAdapterI ==
    \A t \in Threads :
        Applying(t)
            => /\ AdapterNames(Applied(t).obj)
                     = {adapter_name(i) : i \in DOMAIN req[t].loras}
               /\ \A i \in DOMAIN req[t].loras :
                     /\ Applied(t).obj.resident[i] = req[t].loras[i].name
                     /\ Applied(t).obj.weights[i] = l_weight(req[t].loras[i])

\* the larger of a size's width and height
LongEdge(size) == IF size[1] >= size[2] THEN size[1] ELSE size[2]

\* C23: the resize scales every reference image, portrait ones too, so that
\* its long edge (the larger of width and height) is 720.
C23_LongEdgeIs720 ==
    img.state = "resized" => LongEdge(img.scaled) = CanonWidth

\* C24: with a reference image, the width and height given to the pipeline
\* are those of the resized reference image, not the requested ones, and
\* each is the largest multiple of 16 not above the scaled dimension: it is
\* a multiple of 16 and between 0 and 15 pixels below the scaled dimension.
C24_PipelineSizeIsRoundedReference ==
    img.state = "resized"
        => /\ img.passed = img.size
           /\ \A d \in {1, 2} :
                 /\ img.passed[d] % Multiple = 0
                 /\ img.scaled[d] - img.passed[d] \in 0..(Multiple - 1)

\* a reference image has been resized to a size that is not the requested
\* one, and its scaled height was not a multiple of 16
C24_Witness ==
    /\ img.state = "resized"
    /\ img.size # img.requested
    /\ img.scaled[2] % Multiple # 0

\* thread t's generate request returns an error in this step
GenerateReturnsError(t) ==
    req[t].op = "generate" /\ pc[t] # "done" /\ pc'[t] = "done" /\ resp'[t].code # 200

\* C25: when a generate request succeeds the tracker shows status completed
\* and progress 100, and a generate request that returns an error never
\* leaves status completed behind.
C25_SuccessSetsCompleted ==
    [][\A t \in Threads :
          /\ GenerateSucceeds(t)
                => /\ generation_progress'.status = "completed"
                   /\ generation_progress'.progress = 100
          /\ (GenerateReturnsError(t) /\ generation_progress.status # "completed")
                => generation_progress'.status # "completed"]_vars

\* thread t's generate request returns in this step because its backend
\* call failed: the text-to-image generate call has raised, or describe has
\* on a loaded model
BackendFailureReturns(t) ==
    /\ pc'[t] = "done" /\ resp'[t].code # 200
    /\ \/ pc[t] = "gen_err"
       \/ pc[t] = "describe" /\ HasHandle(inst[self[t]])

\* C26: when the backend call of a generate request fails, the tracker
\* shows status failed with the error message, the request returns a server
\* error, and the slot holds the same model as before.
C26_FailureSetsFailed ==
    [][\A t \in Threads :
          BackendFailureReturns(t)
              => /\ generation_progress'.status = "failed"
                 /\ generation_progress'.message = "error"
                 /\ resp'[t].code = 500
                 /\ current_id' = current_id
                 /\ SlotObject(req[t].slot)'.pipeline
                       = SlotObject(req[t].slot).pipeline]_vars

\* C27: a generate request of either modality whose backend run is about to
\* start has reset the tracker to status starting and step 0.
C27_ResetBeforeRun ==
    \A t \in Threads :
        RunInFlight(t)
            => /\ generation_progress.status = "starting"
               /\ generation_progress.step = 0

\* C28: while a text-to-image generation is in flight on a loaded model, no
\* step of another request changes the progress tracker.
C28_OnlyOwnerWritesProgress ==
    [][\A t, u \in Threads :
          (/\ t # u /\ Applying(t)
           /\ pc'[t] = pc[t] /\ pc'[u] # pc[u])
              => generation_progress' = generation_progress]_vars

C30_PathsAreDistinct ==
    Cardinality(output_dir.files) = output_dir.saved

\* C31: a load request is answered 'already loaded' only if the slot's
\* object holds a loaded handle for the requested id; after a failed load of
\* another model, a load of the earlier id is a real load.
C31_AlreadyLoadedHasHandle ==
    \A t \in Threads :
        (Done(t, "load") /\ resp[t].msg = "already loaded")
            => /\ HasHandle(SlotObject(req[t].slot))
               /\ SlotObject(req[t].slot).pipeline = req[t].id

\* C32: a text-to-image generate request that has passed the model check,
\* and so has reset the tracker to starting, does not return while the
\* tracker's status is starting or generating.
C32_ReturnsCompletedOrFailed ==
    \A t \in Threads :
        (/\ Done(t, "generate") /\ req[t].slot = "t2i"
         /\ resp[t].msg \notin ModelNotLoaded)
            => generation_progress.status \in {"completed", "failed"}

\* C33: a generate request rejected with a client error before any backend
\* call leaves the progress tracker and the active adapter set of its slot
\* as they were.
C33_ClientErrorChangesNothing ==
    [][\A t \in Threads :
          (/\ Starts(t, "generate") /\ pc'[t] = "done"
           /\ resp'[t].msg \in BadRequest \cup ModelNotLoaded)
              => /\ generation_progress' = generation_progress
                 /\ \A s \in Slots : ActiveAdapters(s)' = ActiveAdapters(s)]_vars

\* C34: a step of a load, unload or generate request on one slot leaves the
\* other slot's model object, its current id and the status reported for it
\* (whether it has a current id) as they were.
C34_OtherSlotUnchanged ==
    [][\A t \in Threads, s \in Slots :
          (/\ pc'[t] # pc[t]
           /\ req'[t].op \in {"load", "unload", "generate"}
           /\ s # req'[t].slot)
              => /\ SlotObject(s)' = SlotObject(s)
                 /\ (model'[s] = NoInst) = (model[s] = NoInst)
                 /\ current_id'[s] = current_id[s]]_vars

\* the text-to-image model has been unloaded while the image-to-text slot
\* holds its loaded model
C34_Witness ==
    \E t \in Threads :
        /\ Done(t, "unload") /\ req[t].slot = "t2i" /\ "release" \in ops[t]
        /\ HasHandle(SlotObject("i2t")) /\ current_id["i2t"] = "J"

\* C35: after a successful unload of a slot, status reports the slot as
\* empty and every generate request on it is answered ModelNotLoaded until
\* a load on the slot succeeds.  A successful unload leaves the slot
\* without object and without current id, and the current id stays None
\* until a load succeeds: while a slot has no current id, a generate
\* request for its modality is answered ModelNotLoaded.
C35_UnloadedSlotRejectsGenerate ==
    /\ \A t \in Threads :
          (Done(t, "unload") /\ resp[t].code = 200)
              => current_id[req[t].slot] = "None"
    /\ \A t \in Threads :
          (/\ Done(t, "generate") /\ resp[t].msg # "Unknown task"
           /\ current_id[req[t].slot] = "None")
              => resp[t].msg \in ModelNotLoaded

\* C36: when a load on the text-to-image slot succeeds (a swap to another
\* model, or a load after an unload), the slot's active adapter set is empty
\* and no adapter is resident in the new pipeline.
C36_NewModelHasNoAdapters ==
    [][\A t \in Threads :
          (/\ pc[t] = "load_model" /\ pc'[t] = "done"
           /\ req[t].slot = "t2i" /\ resp'[t].msg = "loaded")
              => /\ ActiveAdapters("t2i")' = <<>>
                 /\ SlotObject("t2i")'.resident = <<>>]_vars

\* a load on the text-to-image slot has succeeded after releasing the
\* pipeline of the model loaded before
C36_Witness ==
    \E t \in Threads :
        /\ Done(t, "load") /\ req[t].slot = "t2i" /\ resp[t].msg = "loaded"
        /\ "release" \in ops[t]
        /\ HasHandle(SlotObject("t2i")) /\ ActiveAdapters("t2i") = <<>>

\* C37: a text-to-image generate request that names no adapters leaves the
\* pipeline without adapters for its run: the adapters active before are
\* unloaded, none is loaded, and the active adapter set is empty.
C37_NoAdaptersMeansNone ==
    \A t \in Threads :
        (Applying(t) /\ req[t].loras = <<>>)
            => /\ ~Applied(t).raised
               /\ inst[self[t]].active # <<>>
                     => "unload_lora_weights" \in Applied(t).ops
               /\ "load_lora_weights" \notin Applied(t).ops
               /\ Applied(t).obj.active = <<>>
               /\ Applied(t).obj.resident = <<>>

\* C38: every reference image of positive width and height is resized, and
\* the width and height given to the pipeline are both at least 16.
C38_ResizedSizeIsPositive ==
    img.state \in {"resized", "failed"}
        => /\ img.state = "resized"
           /\ \A d \in {1, 2} : img.passed[d] >= Multiple

====
